---- MODULE Spec2Model ----
(***************************************************************************)
(* Funda listing acquisition: the rate-limited REST client                 *)
(* (FundaAPIClient), the batch fetcher (FundaRESTAPIScraper) and the       *)
(* normalizer of one listing (normalizePropertyFromAPI).                   *)
(*                                                                         *)
(* Conventions of the encoding                                             *)
(*   - text is a sequence of one-character strings; an absent text and the *)
(*     empty text are both <<>> (the code tests texts with `||` and `!`,   *)
(*     which do not tell them apart);                                      *)
(*   - a nullable value is a sequence of length 0 (null) or 1;             *)
(*   - identifiers are positive numbers, 0 is the absent identifier;       *)
(*   - time is in milliseconds and advances in steps of TimeUnit.          *)
(***************************************************************************)
EXTENDS Integers, Sequences, FiniteSets, TLC

(* ------------------------------ bounds --------------------------------- *)
\* longest identifier list handed to a batch
MaxIds == 3
\* milliseconds added by one step of the clock
TimeUnit == 250
\* a timer fires at most this many clock steps after its deadline
MaxLateTicks == 1
\* a request is answered (or fails) within this many clock steps
MaxFetchTicks == 2
\* a type label is made of at most this many fragments
MaxFragments == 2
\* the clock advances at most this many steps around two normalizations
MaxWait == 1
\* a KenmerkenList has at most this many items, a nested one this many
MaxItems == 2
MaxNested == 1
\* a price text has at most this many groups of digits
MaxGroups == 2
\* this many callers use one client at a time, each makes this many calls,
\* and the clock advances this many steps while they do
MaxCallers == 2
MaxCallsEach == 2
MaxGateTicks == 4
\* a search asks for at most this many pages, a page shows at most this many
\* cards, and the clock advances this many steps around the searches
MaxPages == 3
MaxCards == 1
MaxSearchTicks == 2

(* ------------------------- program constants --------------------------- *)
\* private readonly minDelayMs = 500
minDelayMs == 500

(* ------------------------------- text ---------------------------------- *)
UpperCase ==
  <<"A","B","C","D","E","F","G","H","I","J","K","L","M",
    "N","O","P","Q","R","S","T","U","V","W","X","Y","Z">>
LowerCase ==
  <<"a","b","c","d","e","f","g","h","i","j","k","l","m",
    "n","o","p","q","r","s","t","u","v","w","x","y","z">>

\* String.prototype.toLowerCase, one character
toLowerChar(c) ==
  IF \E k \in 1..26 : UpperCase[k] = c
  THEN LowerCase[CHOOSE k \in 1..26 : UpperCase[k] = c]
  ELSE c

\* String.prototype.toLowerCase
toLowerCase(s) == [k \in 1..Len(s) |-> toLowerChar(s[k])]

\* String.prototype.includes
includes(s, t) ==
  \E k \in 0..(Len(s) - Len(t)) : SubSeq(s, k + 1, k + Len(t)) = t

t_appartement == <<"a","p","p","a","r","t","e","m","e","n","t">>
t_apartment == <<"a","p","a","r","t","m","e","n","t">>
t_huis == <<"h","u","i","s">>
t_woning == <<"w","o","n","i","n","g">>
t_house == <<"h","o","u","s","e">>
t_studio == <<"s","t","u","d","i","o">>
t_villa == <<"v","i","l","l","a">>
t_bungalow == <<"b","u","n","g","a","l","o","w">>
t_tuin == <<"t","u","i","n">>
t_nieuwbouw == <<"n","i","e","u","w","b","o","u","w">>
t_eengezinswoning == <<"e","e","n","g","e","z","i","n","s","w","o","n","i","n","g">>
t_kamer == <<"k","a","m","e","r">>
t_grond == <<"g","r","o","n","d">>
t_boerderij == <<"b","o","e","r","d","e","r","i","j">>
t_rent == <<"r","e","n","t">>
t_sale == <<"s","a","l","e">>
t_Unknown == <<"U","n","k","n","o","w","n">>

(* --------------------------- nullable values --------------------------- *)
null == <<>>
Some(x) == <<x>>

(* ----------------------- JSON values of mixed type --------------------- *)
\* A JSON value whose declared type (string) the wire does not enforce.
JSString(chars) == [t |-> "string", s |-> chars, n |-> 0]
JSNumber(k) == [t |-> "number", s |-> <<>>, n |-> k]
JSUndefined == [t |-> "undefined", s |-> <<>>, n |-> 0]

\* ToBoolean of such a value
truthy(v) ==
  \/ v.t = "string" /\ v.s # <<>>
  \/ v.t = "number" /\ v.n # 0

(* ------------------------------ numbers -------------------------------- *)
\* A number read from a text: NaN, or a decimal number with its sign, its
\* integer part and the digits of its fraction (no trailing zeros).
NaN == [nan |-> TRUE, neg |-> FALSE, int |-> 0, frac |-> <<>>]
Num(k, f) == [nan |-> FALSE, neg |-> FALSE, int |-> k, frac |-> f]

isNaN(x) == x.nan

\* ToBoolean of a number: NaN and 0 are falsy
truthyNum(x) == ~x.nan /\ (x.int # 0 \/ x.frac # <<>>)

\* ToBoolean of an optional number (undefined is falsy)
truthyOpt(o) == o # null /\ truthyNum(o[1])

Digits == <<"0","1","2","3","4","5","6","7","8","9">>

\* the class \d of a regular expression
isDigit(c) == \E k \in 1..10 : Digits[k] = c

\* the class \s of a regular expression
Whitespace == {" ", "\t", "\n"}

\* the value of a text of digits
RECURSIVE digitsValue(_)
digitsValue(ds) ==
  IF ds = <<>> THEN 0
  ELSE 10 * digitsValue(SubSeq(ds, 1, Len(ds) - 1))
       + (CHOOSE k \in 1..10 : Digits[k] = ds[Len(ds)]) - 1

\* the longest prefix of s made of digits
RECURSIVE digitPrefix(_)
digitPrefix(s) ==
  IF s # <<>> /\ isDigit(Head(s)) THEN <<Head(s)>> \o digitPrefix(Tail(s))
  ELSE <<>>

\* s without its leading whitespace
RECURSIVE trimStart(_)
trimStart(s) ==
  IF s # <<>> /\ Head(s) \in Whitespace THEN trimStart(Tail(s)) ELSE s

\* s without its trailing whitespace
RECURSIVE trimEnd(_)
trimEnd(s) ==
  IF s # <<>> /\ s[Len(s)] \in Whitespace
  THEN trimEnd(SubSeq(s, 1, Len(s) - 1))
  ELSE s

\* String.prototype.trim
trim(s) == trimEnd(trimStart(s))

\* ds without its trailing zeros
RECURSIVE stripZeros(_)
stripZeros(ds) ==
  IF ds # <<>> /\ ds[Len(ds)] = "0"
  THEN stripZeros(SubSeq(ds, 1, Len(ds) - 1))
  ELSE ds

\* parseInt(s, 10): leading whitespace, a sign, then the digits up to the
\* first other character; NaN when there is no digit (minus zero is zero)
parseInt(s) ==
  LET t == trimStart(s)
      body == IF t # <<>> /\ Head(t) \in {"-", "+"} THEN Tail(t) ELSE t
      ds == digitPrefix(body)
      x == Num(digitsValue(ds), <<>>)
  IN IF ds = <<>> THEN NaN
     ELSE [x EXCEPT !.neg = t # <<>> /\ Head(t) = "-" /\ truthyNum(x)]

\* parseFloat(s): leading whitespace, a sign, digits, then a point and
\* digits; NaN when neither part has a digit (no text here has an exponent)
parseFloat(s) ==
  LET t == trimStart(s)
      body == IF t # <<>> /\ Head(t) \in {"-", "+"} THEN Tail(t) ELSE t
      ds == digitPrefix(body)
      rest == SubSeq(body, Len(ds) + 1, Len(body))
      fs == IF rest # <<>> /\ Head(rest) = "." THEN digitPrefix(Tail(rest))
            ELSE <<>>
      x == Num(digitsValue(ds), stripZeros(fs))
  IN IF ds = <<>> /\ fs = <<>> THEN NaN
     ELSE [x EXCEPT !.neg = t # <<>> /\ Head(t) = "-" /\ truthyNum(x)]

\* s.replace(/[...]/g, ''): s without the characters of the class
removeAll(s, class) == SelectSeq(s, LAMBDA c : c \notin class)

\* s.replace(from, to) with a text pattern: the first occurrence only
replaceFirst(s, from, to) ==
  IF \E k \in 1..Len(s) : s[k] = from
  THEN LET k == CHOOSE j \in 1..Len(s) :
                  s[j] = from /\ \A h \in 1..(j - 1) : s[h] # from
       IN [s EXCEPT ![k] = to]
  ELSE s

\* s.match(/(\d+)/): the first run of digits, or null
RECURSIVE matchDigits(_)
matchDigits(s) ==
  IF s = <<>> THEN null
  ELSE IF isDigit(Head(s)) THEN Some(digitPrefix(s))
  ELSE matchDigits(Tail(s))

(* ------------------------- the Kenmerk tree ---------------------------- *)
\* An element of a KenmerkSections or KenmerkenList array. Shape says what
\* the JSON has there: "group", an object whose KenmerkenList is an array;
\* "leaf", an object without KenmerkenList; "scalar", an object whose
\* KenmerkenList is a number; "null", a JSON null in place of the object.
\* An absent Id is "", an absent Value the empty text.
kenmerk(id, value) ==
  [Id |-> id, Value |-> value, KenmerkenList |-> <<>>, Shape |-> "leaf"]
kenmerkGroup(id, value, list) ==
  [Id |-> id, Value |-> value, KenmerkenList |-> list, Shape |-> "group"]
kenmerkScalar(id) ==
  [Id |-> id, Value |-> <<>>, KenmerkenList |-> <<>>, Shape |-> "scalar"]
kenmerkNull ==
  [Id |-> "", Value |-> <<>>, KenmerkenList |-> <<>>, Shape |-> "null"]

(* -------------------- FundaAPIClient: response parsing ----------------- *)
\* the test of find: (s) => s.Id === id
hasId(item, id) == item.Shape # "null" /\ item.Id = id

\* Array.prototype.find with that test raises a TypeError when it comes to
\* a null element before a match
findThrows(list, id) ==
  \E k \in 1..Len(list) :
    list[k].Shape = "null" /\ \A j \in 1..(k - 1) : ~hasId(list[j], id)

\* Array.prototype.find with that test: the first match, or null
findById(list, id) ==
  IF \E k \in 1..Len(list) : hasId(list[k], id)
  THEN Some(list[CHOOSE k \in 1..Len(list) :
                   /\ hasId(list[k], id)
                   /\ \A j \in 1..(k - 1) : ~hasId(list[j], id)])
  ELSE null

\* the recursive `flatten` closure of parseKenmerkValue raises a TypeError
\* at a null item: item.KenmerkenList
RECURSIVE flattenThrows(_)
flattenThrows(list) ==
  \E k \in 1..Len(list) :
    \/ list[k].Shape = "null"
    \/ list[k].Shape = "group" /\ flattenThrows(list[k].KenmerkenList)

\* every level in turn: the items of the list, then the items nested in them
RECURSIVE flatten_levelByLevel(_)
flatten_levelByLevel(list) ==
  IF list = <<>> THEN <<>>
  ELSE LET RECURSIVE below(_)
           below(l) ==
             IF l = <<>> THEN <<>>
             ELSE (IF Head(l).Shape = "group" THEN Head(l).KenmerkenList
                   ELSE <<>>) \o below(Tail(l))
       IN list \o flatten_levelByLevel(below(list))

\* the recursive `flatten` closure of parseKenmerkValue: an item, then the
\* items nested in it (when its KenmerkenList is an array), then its later
\* siblings
RECURSIVE flatten(_)
flatten(list) ==
  IF list = <<>> THEN <<>>
  ELSE <<Head(list)>>
       \o (IF Head(list).Shape = "group" THEN flatten(Head(list).KenmerkenList)
           ELSE <<>>)
       \o flatten(Tail(list))

\* how a call ends: with a value returned, or with an exception
Returned(v) == [threw |-> FALSE, value |-> v]
Raised == [threw |-> TRUE, value |-> null]

\* the field looked up in every section that has the Id, not in the first
parseKenmerkValueTry_everySection(sections, sectionId, fieldId) ==
  LET all == SelectSeq(sections, LAMBDA sec : hasId(sec, sectionId))
      field == findById(flatten(all), fieldId)
  IN IF findThrows(sections, sectionId) \/ flattenThrows(all) THEN Raised
     ELSE IF field = null \/ field[1].Value = <<>> THEN Returned(null)
     ELSE Returned(Some(field[1].Value))

\* the try block of parseKenmerkValue: the Value text or null returned, or
\* a TypeError raised (find on a null element, forEach on a KenmerkenList
\* that is no array, KenmerkenList of a null item)
parseKenmerkValueTry(sections, sectionId, fieldId) ==
  IF findThrows(sections, sectionId) THEN Raised
  ELSE
    LET section == findById(sections, sectionId) IN
    IF section = null \/ section[1].Shape = "leaf" THEN Returned(null)
    ELSE IF section[1].Shape = "scalar" THEN Raised
    ELSE IF flattenThrows(section[1].KenmerkenList) THEN Raised
    ELSE LET field == findById(flatten(section[1].KenmerkenList), fieldId) IN
         IF field = null \/ field[1].Value = <<>> THEN Returned(null)
         ELSE Returned(Some(field[1].Value))

\* the exception of the try block passed on to the caller
parseKenmerkValueCall_noCatch(sections, sectionId, fieldId) ==
  parseKenmerkValueTry(sections, sectionId, fieldId)

\* parseKenmerkValue as its caller sees it: `catch (error) { return null }`
parseKenmerkValueCall(sections, sectionId, fieldId) ==
  LET r == parseKenmerkValueTry(sections, sectionId, fieldId) IN
  IF r.threw THEN Returned(null) ELSE r

\* FundaAPIClient.parseKenmerkValue: the Value text, or null
parseKenmerkValue(sections, sectionId, fieldId) ==
  parseKenmerkValueCall(sections, sectionId, fieldId).value

\* the characters of /[euro \s.]/ (a character outside ASCII is written
\* as a name in parentheses: the euro sign, the superscript two)
euro == "(euro)"
CurrencyNoise == {euro, "."} \cup Whitespace

\* pricePerM2.replace(/[euro \s.]/g, '').replace(',', '.')
cleanPricePerM2(text) == replaceFirst(removeAll(text, CurrencyNoise), ",", ".")

\* const match = text.match(/(\d+)/); if (match) ... = parseInt(match[1], 10)
firstNumberOf(text) ==
  LET match == matchDigits(text) IN
  IF match # null THEN Some(parseInt(match[1])) ELSE null

\* FundaAPIClient.parseKenmerkSections (a field left out of `parsed` is null
\* for a number and the empty text for a text)
parseKenmerkSections(data) ==
  LET sections == data.KenmerkSections
      value(sectionId, fieldId) == parseKenmerkValue(sections, sectionId, fieldId)
      text(v) == IF v # null THEN v[1] ELSE <<>>
      number(v) == IF v # null THEN firstNumberOf(v[1]) ELSE null
      pricePerM2 == value("overdracht", "overdracht-vraagprijsperm2")
      propertyType == value("bouw", "bouw-soortobject")
      constructionType == value("bouw", "bouw-soortbouw")
      yearBuilt == value("bouw", "bouw-bouwjaar")
      livingArea == value("afmetingen", "afmetingen-gebruiksoppervlakten-wonen")
      plotArea == value("afmetingen", "afmetingen-gebruiksoppervlakten-tuin")
      rooms == value("indeling", "indeling-kamers")
      bedrooms == value("indeling", "indeling-slaapkamers")
      bathrooms == value("indeling", "indeling-badkamers")
      energyLabel == value("energie", "energie-energielabel")
      parking == value("parkeergelegenheid", "parkeergelegenheid-soort")
  IN [pricePerSqm |-> IF pricePerM2 # null THEN cleanPricePerM2(pricePerM2[1])
                      ELSE <<>>,
      dutchPropertyType |-> text(propertyType),
      constructionType |-> text(constructionType),
      yearBuilt |-> IF yearBuilt # null THEN Some(parseInt(yearBuilt[1]))
                    ELSE null,
      sqm |-> number(livingArea),
      plotSqm |-> number(plotArea),
      rooms |-> number(rooms),
      bedrooms |-> number(bedrooms),
      bathrooms |-> number(bathrooms),
      energyLabel |-> IF energyLabel # null THEN trim(energyLabel[1]) ELSE <<>>,
      parkingType |-> text(parking),
      hasParking |-> parking # null]

\* FundaAPIClient.parseListingResponse raises a TypeError when OfferingType
\* is a truthy non-string: (data.OfferingType || 'Unknown').toLowerCase()
parseListingResponseThrows(data) ==
  truthy(data.OfferingType) /\ data.OfferingType.t # "string"

\* FundaAPIClient.parseListingResponse, when it does not throw; `at` is the
\* clock reading of new Date() (address, postal code, city, country,
\* coordinates, description, images and url are copied and not modelled)
parseListingResponse(data, at) ==
  LET numeric == data.Price.NumericSellingPrice
      price == IF numeric = null \/ numeric[1] = 0 THEN null ELSE numeric
      offeringType ==
        IF truthy(data.OfferingType) THEN data.OfferingType.s ELSE t_Unknown
      transactionType ==
        IF toLowerCase(offeringType) = t_rent THEN "rent"
        ELSE IF toLowerCase(offeringType) = t_sale THEN "sale"
        ELSE "unknown"
      objectType == IF data.ObjectType # <<>> THEN data.ObjectType ELSE t_Unknown
      insights == data.ObjectInsights
      property(kenmerkData) ==
        [tinyId |-> data.Identifiers.TinyId,
         globalId |-> data.Identifiers.GlobalId,
         title |-> data.AddressDetails.Title,
         province |-> data.AddressDetails.Province,
         price |-> price,
         currency |-> "EUR",
         pricePerSqm |-> kenmerkData.pricePerSqm,
         sqm |-> kenmerkData.sqm,
         plotSqm |-> kenmerkData.plotSqm,
         rooms |-> kenmerkData.rooms,
         bedrooms |-> kenmerkData.bedrooms,
         bathrooms |-> kenmerkData.bathrooms,
         yearBuilt |-> kenmerkData.yearBuilt,
         objectType |-> objectType,
         dutchPropertyType |-> kenmerkData.dutchPropertyType,
         constructionType |-> kenmerkData.constructionType,
         energyLabel |-> kenmerkData.energyLabel,
         parkingType |-> kenmerkData.parkingType,
         hasParking |-> kenmerkData.hasParking,
         views |-> parseInt(IF insights.Views # <<>> THEN insights.Views
                            ELSE <<"0">>),
         saves |-> parseInt(IF insights.Saves # <<>> THEN insights.Saves
                            ELSE <<"0">>),
         transactionType |-> transactionType,
         publicationDate |-> data.PublicationDate,
         isSoldOrRented |-> data.IsSoldOrRented,
         scrapedAt |-> at]
  IN property(parseKenmerkSections(data))

(* ------------------------ normalizePropertyFromAPI --------------------- *)
\* the property type of normalizePropertyFromAPI
apiPropertyType(data) ==
  IF data.dutchPropertyType # <<>> THEN
    LET dutch == toLowerCase(data.dutchPropertyType) IN
    IF includes(dutch, t_appartement) THEN "apartment"
    ELSE IF includes(dutch, t_huis) \/ includes(dutch, t_woning) THEN "house"
    ELSE IF includes(dutch, t_studio) THEN "studio"
    ELSE IF includes(dutch, t_villa) THEN "villa"
    ELSE IF includes(dutch, t_bungalow) THEN "bungalow"
    ELSE IF includes(dutch, t_tuin) THEN "land"
    ELSE IF includes(dutch, t_nieuwbouw) THEN "new-construction"
    ELSE "property"
  ELSE IF data.objectType # <<>> THEN
    LET obj == toLowerCase(data.objectType) IN
    IF includes(obj, t_apartment) THEN "apartment"
    ELSE IF includes(obj, t_house) THEN "house"
    ELSE IF includes(obj, t_studio) THEN "studio"
    ELSE IF includes(obj, t_villa) THEN "villa"
    ELSE "property"
  ELSE "property"

\* the texts the features start with
featurePrefix ==
  [energy |-> <<"E","n","e","r","g","y"," ","L","a","b","e","l",":"," ">>,
   parking |-> <<"P","a","r","k","i","n","g",":"," ">>,
   construction |-> <<"C","o","n","s","t","r","u","c","t","i","o","n",":"," ">>]

\* the status of normalizePropertyFromAPI
apiStatus(data) ==
  IF data.isSoldOrRented
  THEN (IF data.transactionType = "rent" THEN "rented" ELSE "sold")
  ELSE "available"

\* normalizePropertyFromAPI: null for a record with neither title nor price
normalizePropertyFromAPI(data) ==
  IF data.title = <<>> /\ data.price = null THEN null
  ELSE Some([id |-> data.tinyId,
             source |-> "funda-netherlands-api",
             title |-> data.title,
             price |-> data.price,
             currency |-> data.currency,
             priceUnit |-> IF data.transactionType = "rent" THEN "per_month" ELSE "total",
             propertyType |-> apiPropertyType(data),
             transactionType |-> data.transactionType,
             status |-> apiStatus(data),
             details |-> [sqm |-> data.sqm,
                          rooms |-> data.rooms,
                          bedrooms |-> data.bedrooms,
                          bathrooms |-> data.bathrooms,
                          yearBuilt |-> data.yearBuilt,
                          gardenSqm |-> data.plotSqm,
                          parking |-> data.hasParking],
             features |-> IF data.energyLabel # <<>>
                          THEN <<featurePrefix.energy \o data.energyLabel>>
                          ELSE <<>>,
             scrapedAt |-> data.scrapedAt])

(* ------------------- transformer: normalizePropertyType ---------------- *)
\* the test for land (tuin, grond) moved before the test for a house
normalizePropertyType_landFirst(dutchType, objectType) ==
  IF dutchType = <<>> /\ objectType = <<>> THEN "property"
  ELSE
    LET combined == toLowerCase(dutchType \o <<" ">> \o objectType) IN
    IF includes(combined, t_appartement) \/ includes(combined, t_apartment)
    THEN "apartment"
    ELSE IF includes(combined, t_tuin) \/ includes(combined, t_grond)
    THEN "land"
    ELSE IF \/ includes(combined, t_woning)
            \/ includes(combined, t_eengezinswoning)
            \/ includes(combined, t_huis)
    THEN "house"
    ELSE IF includes(combined, t_villa) THEN "villa"
    ELSE IF includes(combined, t_bungalow) THEN "bungalow"
    ELSE IF includes(combined, t_studio) THEN "studio"
    ELSE IF includes(combined, t_kamer) THEN "room"
    ELSE IF includes(combined, t_nieuwbouw) THEN "new-construction"
    ELSE IF includes(combined, t_boerderij) THEN "farm"
    ELSE "property"

\* normalizePropertyType(dutchType?, objectType?): an absent label and the
\* empty label are both falsy; `${dutchType || ''} ${objectType || ''}`
\* puts a space between the two labels
normalizePropertyType(dutchType, objectType) ==
  IF dutchType = <<>> /\ objectType = <<>> THEN "property"
  ELSE
    LET combined == toLowerCase(dutchType \o <<" ">> \o objectType) IN
    IF includes(combined, t_appartement) \/ includes(combined, t_apartment)
    THEN "apartment"
    ELSE IF \/ includes(combined, t_woning)
            \/ includes(combined, t_eengezinswoning)
            \/ includes(combined, t_huis)
    THEN "house"
    ELSE IF includes(combined, t_villa) THEN "villa"
    ELSE IF includes(combined, t_bungalow) THEN "bungalow"
    ELSE IF includes(combined, t_studio) THEN "studio"
    ELSE IF includes(combined, t_kamer) THEN "room"
    ELSE IF includes(combined, t_tuin) \/ includes(combined, t_grond)
    THEN "land"
    ELSE IF includes(combined, t_nieuwbouw) THEN "new-construction"
    ELSE IF includes(combined, t_boerderij) THEN "farm"
    ELSE "property"

(* -------------------- transformer: transformToStandard ----------------- *)
\* the characters of the class of parsePricePerSqm as the source file has
\* it: a with circumflex, low quotation mark, not sign, whitespace, point
MojibakeNoise == {"(a-circumflex)", "(low-quote)", "(not-sign)", "."} \cup Whitespace

\* parsePricePerSqm: undefined (null) for no text and for NaN
parsePricePerSqm(pricePerSqmStr) ==
  IF pricePerSqmStr = <<>> THEN null
  ELSE
    LET cleaned == replaceFirst(removeAll(pricePerSqmStr, MojibakeNoise), ",", ".")
        num == parseFloat(cleaned)
    IN IF isNaN(num) THEN null ELSE Some(num)

\* extractFeatures
extractFeatures(data) ==
  (IF data.energyLabel # <<>> THEN <<featurePrefix.energy \o data.energyLabel>>
   ELSE <<>>)
  \o (IF data.parkingType # <<>> THEN <<featurePrefix.parking \o data.parkingType>>
      ELSE <<>>)
  \o (IF data.constructionType # <<>>
      THEN <<featurePrefix.construction \o data.constructionType>>
      ELSE <<>>)

\* if (cond) countrySpecific[key] = value
setIf(bag, cond, key, value) == IF cond THEN (key :> value) @@ bag ELSE bag

\* countrySpecific.price_per_sqm_original set whenever the text is there,
\* whether or not it parsed
pricePerSqmKept_always(data, pricePerSqm) == TRUE

\* if (pricePerSqm): the text is kept when it parsed to a number other
\* than 0
pricePerSqmKept(data, pricePerSqm) == truthyOpt(pricePerSqm)

\* the country_specific object of transformToStandard: its keys are the
\* domain, a text value is a text, a number value an optional number
countrySpecificOf(data, pricePerSqm) ==
  LET b0 == << >>
      b1 == setIf(b0, data.dutchPropertyType # <<>>,
                  "dutch_property_type", data.dutchPropertyType)
      b2 == setIf(b1, data.constructionType # <<>>,
                  "construction_type", data.constructionType)
      b3 == setIf(b2, data.parkingType # <<>>, "parking_type", data.parkingType)
      b4 == setIf(b3, data.province # <<>>, "province", data.province)
      b5 == setIf(b4, data.energyLabel # <<>>, "energy_label", data.energyLabel)
      b6 == setIf(b5, truthyOpt(data.plotSqm), "plot_sqm", data.plotSqm)
      b7 == setIf(b6, pricePerSqmKept(data, pricePerSqm),
                  "price_per_sqm_original", data.pricePerSqm)
      b8 == setIf(b7, truthyNum(data.views), "views", Some(data.views))
      b9 == setIf(b8, truthyNum(data.saves), "saves", Some(data.saves))
  IN setIf(b9, data.publicationDate # <<>>,
           "publication_date", data.publicationDate)

\* the status of transformToStandard
standardStatus(data) ==
  IF data.isSoldOrRented
  THEN (IF data.transactionType = "rent" THEN "rented" ELSE "sold")
  ELSE "active"

\* transformToStandard (source_url, address, city, country, postal code,
\* coordinates, images and description are copied and not modelled); an
\* undefined field is null for a number and the empty text for a text
transformToStandard(data) ==
  LET propertyType == normalizePropertyType(data.dutchPropertyType, data.objectType)
      pricePerSqm == parsePricePerSqm(data.pricePerSqm)
  IN [title |-> data.title,
      price |-> IF data.price # null THEN data.price[1] ELSE 0,
      currency |-> data.currency,
      property_type |-> propertyType,
      transaction_type |-> IF data.transactionType = "rent" THEN "rent" ELSE "sale",
      location |-> [region |-> data.province],
      details |-> [bedrooms |-> data.bedrooms,
                   bathrooms |-> data.bathrooms,
                   sqm |-> data.sqm,
                   sqm_type |-> "living",
                   rooms |-> data.rooms,
                   year_built |-> data.yearBuilt],
      description_language |-> "nl",
      features |-> extractFeatures(data),
      amenities |-> [has_parking |-> data.hasParking,
                     has_garden |->
                       IF truthyOpt(data.plotSqm)
                       THEN Some(data.plotSqm[1].int > 0) ELSE null,
                     is_new_construction |->
                       IF data.dutchPropertyType # <<>>
                       THEN Some(includes(toLowerCase(data.dutchPropertyType),
                                          t_nieuwbouw))
                       ELSE null],
      energy_rating |-> data.energyLabel,
      price_per_sqm |-> pricePerSqm,
      country_specific |-> countrySpecificOf(data, pricePerSqm),
      status |-> standardStatus(data)]

(* ---------------------- the texts of a listing page -------------------- *)
\* the points of the thousands left in the text
parsePrice_pointsKept(priceText) ==
  IF priceText = <<>> THEN null
  ELSE LET num == parseInt(replaceFirst(removeAll(priceText,
                                                  {euro} \cup Whitespace),
                                        ",", "."))
       IN IF isNaN(num) THEN null ELSE Some(num)

\* parsePrice: priceText.replace(/[euro \s.]/g, '').replace(',', '.'), then
\* parseInt(cleaned, 10); null for no text and for NaN
parsePrice(priceText) ==
  IF priceText = <<>> THEN null
  ELSE LET num == parseInt(replaceFirst(removeAll(priceText, CurrencyNoise),
                                        ",", "."))
       IN IF isNaN(num) THEN null ELSE Some(num)

\* /(\d+)\s*m[(sup2)2]/i matches at position p: the digits from p on, any
\* whitespace, an m of either case, then a superscript two or a 2
areaAt(text, p) ==
  LET ds == digitPrefix(SubSeq(text, p, Len(text)))
      rest == trimStart(SubSeq(text, p + Len(ds), Len(text)))
  IN /\ ds # <<>>
     /\ Len(rest) >= 2
     /\ rest[1] \in {"m", "M"}
     /\ rest[2] \in {"(sup2)", "2"}

\* extractSqm: text.match(/(\d+)\s*m[(sup2)2]/i), the leftmost match, then
\* parseInt(match[1], 10); undefined for no text and for no match
extractSqm(text) ==
  LET starts == {p \in 1..Len(text) : areaAt(text, p)} IN
  IF text = <<>> \/ starts = {} THEN null
  ELSE LET p == CHOOSE q \in starts : \A r \in starts : q <= r
       IN Some(parseInt(digitPrefix(SubSeq(text, p, Len(text)))))

(* ------------------ FundaRESTAPIScraper: one listing ------------------- *)
\* FundaRESTAPIScraper.parseListingResponse: try { normalize(parse(raw)) }
\* catch { null }
scraperParseListingResponse(rawData, at) ==
  IF parseListingResponseThrows(rawData) THEN null
  ELSE normalizePropertyFromAPI(parseListingResponse(rawData, at))

(* --------------------- what the listing server sends ------------------- *)
t_Dam1 == <<"D","a","m"," ","1">>
t_Eengezinswoning == <<"E","e","n","g","e","z","i","n","s","w","o","n","i","n","g">>
t_House == <<"H","o","u","s","e">>
t_Apartment == <<"A","p","a","r","t","m","e","n","t">>
t_Sale == <<"S","a","l","e">>
t_Rent == <<"R","e","n","t">>

\* the texts the listings below are made of
sample ==
  [province |-> <<"U","t","r","e","c","h","t">>,
   construction |-> <<"B","e","s","t","a","a","n","d","e"," ","b","o","u","w">>,
   energy |-> <<" ","A"," ">>,
   parking |-> <<"G","a","r","a","g","e">>,
   published |-> <<"2","0","2","4","-","0","5","-","0","1">>,
   views |-> <<"1","5">>,
   area |-> <<"1","2","0"," ","m","(sup2)">>,
   none |-> <<"g","e","e","n">>,
   zero |-> <<"0">>,
   year |-> <<"1","9","3","0">>,
   before |-> <<"V","o","o","r"," ","1","9","0","6">>,
   perSqm |-> <<"(euro)"," ","3",".","7","5","0">>,
   perSqmCents |-> <<"(euro)"," ","3",".","7","5","0",",","5","0">>,
   onRequest |-> <<"n",".","v",".","t",".">>,
   met |-> <<" ","m","e","t"," ">>,
   Tu |-> <<"T","u">>,
   in |-> <<"i","n">>,
   Villa |-> <<"V","i","l","l","a">>,
   woningMetTuin |-> <<"w","o","n","i","n","g"," ","m","e","t"," ","t","u","i","n">>,
   kk |-> <<" ","k",".","k",".">>,
   perMaand |-> <<" ","p","e","r"," ","m","a","a","n","d">>,
   cents |-> <<"5","0">>,
   wonen |-> <<"W","o","n","e","n",":"," ">>,
   kamers |-> <<"3"," ","k","a","m","e","r","s",","," ">>,
   berging |-> <<"5"," ","m","2"," ","b","e","r","g","i","n","g",","," ">>,
   veiling |-> <<"V","e","i","l","i","n","g">>,
   RENT |-> <<"R","E","N","T">>]

\* the fields of a listing response that the parser reads
listingOf(id, price, title, province, sections, objectType, offeringType, sold, published, views) ==
  [Identifiers |-> [TinyId |-> id, GlobalId |-> IF id = 0 THEN 0 ELSE 7000 + id],
   Price |-> [NumericSellingPrice |-> price],
   AddressDetails |-> [Title |-> title, Province |-> province],
   KenmerkSections |-> sections,
   ObjectType |-> objectType,
   OfferingType |-> offeringType,
   PublicationDate |-> published,
   ObjectInsights |-> [Views |-> views, Saves |-> views],
   IsSoldOrRented |-> sold]

\* a listing for sale, sold, with a title, a price and a `bouw` section whose
\* property type sits in a nested list
listingHouse(id) ==
  listingOf(id, Some(450000), t_Dam1, sample.province,
            << kenmerkGroup("bouw", <<>>,
                 << kenmerkGroup("", <<>>,
                      << kenmerk("bouw-soortobject", t_Eengezinswoning) >>) >>) >>,
            t_House, JSString(t_Sale), TRUE, sample.published, sample.views)

\* a rental with a title and no numeric price
listingRent(id) ==
  listingOf(id, null, t_Dam1, <<>>, <<>>, t_Apartment, JSString(t_Rent),
            FALSE, <<>>, <<>>)

\* a listing with neither a title nor a numeric price (price on request,
\* address withheld)
listingBare(id) ==
  listingOf(id, null, <<>>, <<>>, <<>>, <<>>, JSUndefined, FALSE, <<>>, <<>>)

\* a listing whose OfferingType is a number, not a string
listingBadType(id) ==
  listingOf(id, Some(450000), t_Dam1, <<>>, <<>>, t_House, JSNumber(1),
            FALSE, <<>>, <<>>)

\* the ways a request ends
FailKinds == {"throw", "http404", "empty"}
OkKinds == {"house", "rent", "bare", "badtype"}
Kinds == FailKinds \cup OkKinds

\* what client.get yields for a request of `id` ending the way `kind` says:
\* a thrown transport error, or a response with a status and a body
httpResponse(kind, id) ==
  CASE kind = "throw" -> [threw |-> TRUE, status |-> 0, data |-> null]
    [] kind = "http404" -> [threw |-> FALSE, status |-> 404, data |-> Some(listingHouse(id))]
    [] kind = "empty" -> [threw |-> FALSE, status |-> 200, data |-> null]
    [] kind = "house" -> [threw |-> FALSE, status |-> 200, data |-> Some(listingHouse(id))]
    [] kind = "rent" -> [threw |-> FALSE, status |-> 200, data |-> Some(listingRent(id))]
    [] kind = "bare" -> [threw |-> FALSE, status |-> 200, data |-> Some(listingBare(id))]
    [] kind = "badtype" -> [threw |-> FALSE, status |-> 200, data |-> Some(listingBadType(id))]

(* ------------------ FundaAPIClient: one rate-limited request ----------- *)
\* const delayNeeded = this.config.delayMs || this.minDelayMs
delayNeeded(configDelayMs) ==
  IF configDelayMs # 0 THEN configDelayMs ELSE minDelayMs

\* rateLimit without its wait
rateLimitDelay_none(nowMs, lastMs, needed) == 0

\* rateLimit: the time to wait before the request, 0 when none is needed
rateLimitDelay(nowMs, lastMs, needed) ==
  IF nowMs - lastMs < needed THEN needed - (nowMs - lastMs) ELSE 0

\* the request counted in rateLimit and again in getListingByTinyId
countRequest_twice(count) == count + 2

\* this.requestCount++
countRequest(count) == count + 1

\* getListingByTinyId without the test of response.status
getListingByTinyId_anyStatus(resp) ==
  IF resp.threw THEN null
  ELSE IF resp.data = null THEN null
  ELSE resp.data

\* the part of getListingByTinyId after the response: the payload, or null
\* for a thrown error (catch), a status other than 200, an empty payload
getListingByTinyId(resp) ==
  IF resp.threw THEN null
  ELSE IF resp.status # 200 THEN null
  ELSE IF resp.data = null THEN null
  ELSE resp.data

\* the part of fetchListing after the response: the property, or null
fetchListing(resp, at) ==
  LET rawData == getListingByTinyId(resp) IN
  IF rawData = null THEN null
  ELSE scraperParseListingResponse(rawData[1], at)

(* ------------------- FundaRESTAPIScraper.fetchListingsBatch ------------ *)
\* results.unshift(property) in place of results.push(property)
pushResult_front(res, property) ==
  IF property # null THEN <<property[1]>> \o res ELSE res

\* the record numbered by its place in `results`, as extractListingsFromPage
\* numbers its cards, in place of the identifier of the listing
pushResult_renumbered(res, property) ==
  IF property # null
  THEN Append(res, [property[1] EXCEPT !.id = Len(res) + 1])
  ELSE res

\* if (property) results.push(property)
pushResult(res, property) ==
  IF property # null THEN Append(res, property[1]) ELSE res

\* the else branch lost: a null property is pushed nowhere
pushFailed_dropped(fl, property, tinyId) == fl

\* else failed.push(tinyId)
pushFailed(fl, property, tinyId) ==
  IF property # null THEN fl ELSE Append(fl, tinyId)

\* the loop condition i < tinyIds.length
loopContinues(idx, ids) == idx < Len(ids)

\* setTimeout(() => {}, delay): the promise of rateLimit is never resolved
timerFires_never(nowMs, deadline) == FALSE

\* the callback of setTimeout(resolve, delay) runs once the delay is over
timerFires(nowMs, deadline) == nowMs >= deadline

\* this.fetchListing(tinyId) without await: the loop goes on at once
pcAfterRequest_noAwait == "loop"

\* `await this.fetchListing(tinyId)`: the loop is suspended until the
\* response has been processed
pcAfterRequest == "fetching"

(* ------------------------------- state --------------------------------- *)
VARIABLES
  tinyIds,          \* the identifier list handed to fetchListingsBatch
  delayMs,          \* config.delayMs of the client (0: not set)
  env,              \* what the surroundings may do: the ways a request may
                    \* end, how long a response and a timer may take
  now,              \* Date.now()
  lastRequestTime,  \* FundaAPIClient.lastRequestTime
  requestCount,     \* FundaAPIClient.requestCount
  pc,               \* where fetchListingsBatch stands
  i,                \* the loop index of fetchListingsBatch
  results,          \* const results: FundaProperty[]
  failed,           \* const failed: (string | number)[]
  wakeAt,           \* deadline of the pending setTimeout of rateLimit
  inFlight,         \* requests sent and not yet answered
  requests,         \* log of the requests sent: position in tinyIds, time
  served,           \* log of the ways the requests ended, by position
  startTime,        \* const startTime = Date.now()
  returned,         \* the value fetchListingsBatch resolved to
  flip,             \* second run: the position whose fetch ends the other
                    \* way (0: no second run)
  served2,          \* second run: `served`
  results2,         \* second run: `results`
  failed2,          \* second run: `failed`
  given,            \* a function called on its own: its arguments
  got,              \* a function called on its own: what it returned
  gotAgain,         \* the same call made once more: what it returned
  calls,            \* callers of getListingByTinyId on one client: where
                    \* each stands, the deadline of its rateLimit timer
  browser,          \* FundaScraper.browser: "null", "open" or "closed"
  page,             \* FundaScraper.page: "null", "open" or "closed"
  options,          \* the SearchOptions of the search under way
  pageNum,          \* let pageNum
  allListings,      \* const allListings: FundaProperty[]
  searchPc,         \* where searchInternal stands
  sleepUntil,       \* deadline of the pending setTimeout of delay
  loads,            \* log of the page loads of the search: page, time,
                    \* the browser and the page they were made on
  delayed,          \* log of the delays of the search: the page loaded
                    \* before each
  outcome           \* what the last search resolved to or threw

vars ==
  <<tinyIds, delayMs, env, now, lastRequestTime, requestCount, pc, i, results,
    failed, wakeAt, inFlight, requests, served, startTime, returned,
    flip, served2, results2, failed2, given, got, gotAgain, calls,
    browser, page, options, pageNum, allListings, searchPc, sleepUntil, loads,
    delayed, outcome>>

\* the second run of the same batch, compared with the first
pairVars == <<flip, served2, results2, failed2>>

\* a function of the pipeline called on its own, outside a batch
callVars == <<given, got, gotAgain>>

\* the FundaScraper and the search it runs
searchVars ==
  <<browser, page, options, pageNum, allListings, searchPc, sleepUntil, loads,
    delayed, outcome>>

\* the state of a batch and of the client that serves it
batchVars ==
  <<tinyIds, delayMs, env, now, lastRequestTime, requestCount, pc, i, results,
    failed, wakeAt, inFlight, requests, served, startTime, returned, pairVars>>

\* the clock reading when the client is constructed (any reading of the
\* epoch clock exceeds every configured delay)
Epoch == 1000

\* the identifiers (a list may repeat one)
Ids == {1, 2}
IdLists == UNION {[1..n -> Ids] : n \in 0..MaxIds}
\* one list of each length: 1, 2, 1, 2, ...
AlternatingLists == {[p \in 1..n |-> 2 - (p % 2)] : n \in 0..MaxIds}
DelayChoices == {0, TimeUnit}

\* nobody calls the client from outside the batch
NoCalls == calls = <<>>

\* a freshly constructed FundaScraper, no search under way
NoSearch ==
  /\ browser = "null"
  /\ page = "null"
  /\ options = null
  /\ pageNum = 0
  /\ allListings = <<>>
  /\ searchPc = "idle"
  /\ sleepUntil = 0
  /\ loads = <<>>
  /\ delayed = <<>>
  /\ outcome = null

\* a freshly constructed scraper and client, fetchListingsBatch(tinyIds)
\* entered and standing before its loop
InitWith(lists, surroundings, flips) ==
  /\ NoCalls
  /\ NoSearch
  /\ tinyIds \in lists
  /\ flip \in {f \in flips : f <= Len(tinyIds)}
  /\ served2 = <<>>
  /\ results2 = <<>>
  /\ failed2 = <<>>
  /\ delayMs \in DelayChoices
  /\ env = surroundings
  /\ now = Epoch
  /\ lastRequestTime = 0
  /\ requestCount = 0
  /\ pc = "loop"
  /\ i = 0
  /\ results = <<>>
  /\ failed = <<>>
  /\ wakeAt = 0
  /\ inFlight = 0
  /\ requests = <<>>
  /\ served = <<>>
  /\ startTime = Epoch
  /\ returned = null
  /\ given = null
  /\ got = null
  /\ gotAgain = null

\* every way a request may end, every identifier list; responses and timers
\* take no time
Init ==
  InitWith(IdLists, [kinds |-> Kinds, fetchTicks |-> 0, lateTicks |-> 0], {0})

\* slow responses and late timers; requests end in a transport error, in a
\* listing or in a listing without title and price
TimedInit ==
  InitWith(AlternatingLists,
           [kinds |-> {"throw", "house", "bare"},
            fetchTicks |-> MaxFetchTicks, lateTicks |-> MaxLateTicks],
           {0})

\* two runs of one batch in lockstep: the same list, the same clock, the
\* same responses but at position `flip`
PairInit ==
  InitWith(AlternatingLists,
           [kinds |-> Kinds, fetchTicks |-> 0, lateTicks |-> 0],
           1..MaxIds)

(* ------------------------------ actions -------------------------------- *)
\* getListingByTinyId after rateLimit: count the request and send it
SendRequest ==
  /\ lastRequestTime' = now
  /\ requestCount' = countRequest(requestCount)
  /\ requests' = Append(requests, [pos |-> i + 1, at |-> now])
  /\ inFlight' = inFlight + 1
  /\ pc' = pcAfterRequest

\* loop body entered, rateLimit finds the last request old enough
FetchNow ==
  /\ pc = "loop"
  /\ loopContinues(i, tinyIds)
  /\ rateLimitDelay(now, lastRequestTime, delayNeeded(delayMs)) = 0
  /\ SendRequest
  /\ UNCHANGED <<tinyIds, delayMs, env, now, i, results, failed, wakeAt,
                 served, startTime, returned, pairVars, callVars, calls, searchVars>>

\* loop body entered, rateLimit starts a timer
FetchLater ==
  /\ pc = "loop"
  /\ loopContinues(i, tinyIds)
  /\ rateLimitDelay(now, lastRequestTime, delayNeeded(delayMs)) > 0
  /\ wakeAt' = now + rateLimitDelay(now, lastRequestTime, delayNeeded(delayMs))
  /\ pc' = "sleep"
  /\ UNCHANGED <<tinyIds, delayMs, env, now, lastRequestTime, requestCount, i,
                 results, failed, inFlight, requests, served, startTime,
                 returned, pairVars, callVars, calls, searchVars>>

\* the timer of rateLimit fires
TimerFire ==
  /\ pc = "sleep"
  /\ timerFires(now, wakeAt)
  /\ SendRequest
  /\ UNCHANGED <<tinyIds, delayMs, env, now, i, results, failed, wakeAt,
                 served, startTime, returned, pairVars, callVars, calls, searchVars>>

\* the request ends the way `kind` says; the rest of getListingByTinyId, of
\* fetchListing and of the loop body runs
RespondWith(kind) ==
  /\ pc = "fetching"
  /\ inFlight > 0
  /\ LET property == fetchListing(httpResponse(kind, tinyIds[i + 1]), now) IN
       /\ results' = pushResult(results, property)
       /\ failed' = pushFailed(failed, property, tinyIds[i + 1])
       /\ served' = Append(served, kind)
  /\ inFlight' = inFlight - 1
  /\ i' = i + 1
  /\ pc' = "loop"
  /\ UNCHANGED <<tinyIds, delayMs, env, now, lastRequestTime, requestCount,
                 wakeAt, requests, startTime, returned, callVars, calls, searchVars>>

Respond ==
  /\ \E kind \in env.kinds : RespondWith(kind)
  /\ UNCHANGED pairVars

\* the ways the request of the second run may end when that of the first
\* ends the way `kind` says: the same way, but at position `flip` a failure
\* against a success and a success against a failure
secondKinds(kind, pos) ==
  IF pos # flip THEN {kind}
  ELSE IF kind \in FailKinds THEN env.kinds \ FailKinds
  ELSE env.kinds \cap FailKinds

\* both runs process the response of the same position at the same time
RespondBoth ==
  /\ \E kind \in env.kinds :
       /\ RespondWith(kind)
       /\ \E kind2 \in secondKinds(kind, i + 1) :
            LET property2 ==
                  fetchListing(httpResponse(kind2, tinyIds[i + 1]), now) IN
            /\ results2' = pushResult(results2, property2)
            /\ failed2' = pushFailed(failed2, property2, tinyIds[i + 1])
            /\ served2' = Append(served2, kind2)
  /\ UNCHANGED flip

\* the loop is over: fetchListingsBatch returns `results`
Finish ==
  /\ pc = "loop"
  /\ ~loopContinues(i, tinyIds)
  /\ returned' = Some([results |-> results])
  /\ pc' = "done"
  /\ UNCHANGED <<tinyIds, delayMs, env, now, lastRequestTime, requestCount, i,
                 results, failed, wakeAt, inFlight, requests, served, startTime,
                 pairVars, callVars, calls, searchVars>>

\* time passes while a timer or a response is awaited
Tick ==
  /\ \/ pc = "sleep" /\ now < wakeAt + env.lateTicks * TimeUnit
     \/ pc = "fetching" /\ now < lastRequestTime + env.fetchTicks * TimeUnit
  /\ now' = now + TimeUnit
  /\ UNCHANGED <<tinyIds, delayMs, env, lastRequestTime, requestCount, pc, i,
                 results, failed, wakeAt, inFlight, requests, served, startTime,
                 returned, pairVars, callVars, calls, searchVars>>

Next == FetchNow \/ FetchLater \/ TimerFire \/ Respond \/ Finish \/ Tick

Spec == Init /\ [][Next]_vars

TimedSpec == TimedInit /\ [][Next]_vars

\* the event loop keeps running: the loop goes on, a due timer fires, the
\* clock advances (whether a request ever ends is up to the transport)
LiveSpec ==
  /\ Init /\ [][Next]_vars
  /\ WF_vars(FetchNow) /\ WF_vars(FetchLater) /\ WF_vars(TimerFire)
  /\ WF_vars(Finish) /\ WF_vars(Tick)

PairNext == FetchNow \/ FetchLater \/ TimerFire \/ RespondBoth \/ Finish \/ Tick

PairSpec == PairInit /\ [][PairNext]_vars

(* ------------ the functions of the pipeline, called on their own ------- *)
\* a freshly constructed scraper and client, no batch entered
NoBatch ==
  /\ tinyIds = <<>>
  /\ flip = 0
  /\ served2 = <<>>
  /\ results2 = <<>>
  /\ failed2 = <<>>
  /\ delayMs = 0
  /\ env = [kinds |-> {}, fetchTicks |-> 0, lateTicks |-> 0]
  /\ now = Epoch
  /\ lastRequestTime = 0
  /\ requestCount = 0
  /\ pc = "idle"
  /\ i = 0
  /\ results = <<>>
  /\ failed = <<>>
  /\ wakeAt = 0
  /\ inFlight = 0
  /\ requests = <<>>
  /\ served = <<>>
  /\ startTime = Epoch
  /\ returned = null

\* the texts of a sequence of texts, joined
RECURSIVE join(_)
join(parts) == IF parts = <<>> THEN <<>> ELSE Head(parts) \o join(Tail(parts))

\* every text made of at most n of the given fragments
TextsOf(fragments, n) ==
  UNION {{join(parts) : parts \in [1..k -> fragments]} : k \in 0..n}

\* the fragments type labels are made of: the terms of the classifier, some
\* capitalised, a filler and the first half of a term
LabelFragments ==
  {t_appartement, t_Apartment, t_Eengezinswoning, t_huis, sample.Villa,
   t_bungalow, t_studio, t_kamer, t_tuin, t_grond, t_nieuwbouw, t_boerderij,
   sample.met, sample.Tu}

DutchTypes == TextsOf(LabelFragments, MaxFragments) \cup {sample.woningMetTuin}
ObjectTypes == {<<>>, t_House, t_Apartment, sample.in}

\* normalizePropertyType is about to be called on two labels
ClassifyInit ==
  /\ NoBatch
  /\ NoCalls
  /\ NoSearch
  /\ given \in [dutchType : DutchTypes, objectType : ObjectTypes]
  /\ got = null
  /\ gotAgain = null

\* the call of normalizePropertyType returns
Classify ==
  /\ got = null
  /\ got' = Some(normalizePropertyType(given.dutchType, given.objectType))
  /\ UNCHANGED <<calls, searchVars, batchVars, given, gotAgain>>

ClassifySpec == ClassifyInit /\ [][Classify]_vars

\* what a listing response may carry: the text of the price per m2 (none,
\* whole euros, euros and cents, words), of the year of construction
\* (none, a year, words around a year), of the areas and room counts
\* (none, a number, zero, words), of the view and save counts, and whether
\* it has the labels (type, construction, energy, parking, province, date)
ListingChoices ==
  [pricePerM2 : {<<>>, sample.perSqm, sample.perSqmCents, sample.onRequest},
   yearBuilt : {<<>>, sample.year, sample.before},
   measure : {<<>>, sample.area, sample.zero, sample.none},
   insights : {<<>>, sample.zero, sample.views},
   labelled : BOOLEAN]

\* the listing response that carries what `c` says; a section is there
\* when one of its fields is
listingWith(c) ==
  LET label(text) == IF c.labelled THEN text ELSE <<>>
      overdracht ==
        IF c.pricePerM2 = <<>> THEN <<>>
        ELSE << kenmerkGroup("overdracht", <<>>,
                  << kenmerk("overdracht-vraagprijsperm2", c.pricePerM2) >>) >>
      bouw ==
        << kenmerkGroup("bouw", <<>>,
             << kenmerk("bouw-soortobject", label(t_Eengezinswoning)),
                kenmerk("bouw-soortbouw", label(sample.construction)),
                kenmerk("bouw-bouwjaar", c.yearBuilt) >>) >>
      afmetingen ==
        << kenmerkGroup("afmetingen", <<>>,
             << kenmerkGroup("afmetingen-gebruiksoppervlakten", <<>>,
                  << kenmerk("afmetingen-gebruiksoppervlakten-wonen", c.measure),
                     kenmerk("afmetingen-gebruiksoppervlakten-tuin", c.measure)
                  >>) >>) >>
      indeling ==
        << kenmerkGroup("indeling", <<>>,
             << kenmerk("indeling-kamers", c.measure),
                kenmerk("indeling-slaapkamers", c.measure),
                kenmerk("indeling-badkamers", c.measure) >>) >>
      energie ==
        << kenmerkGroup("energie", <<>>,
             << kenmerk("energie-energielabel", label(sample.energy)) >>) >>
      parkeergelegenheid ==
        << kenmerkGroup("parkeergelegenheid", <<>>,
             << kenmerk("parkeergelegenheid-soort", label(sample.parking)) >>) >>
  IN listingOf(1, Some(450000), t_Dam1, label(sample.province),
               overdracht \o bouw \o afmetingen \o indeling \o energie
                 \o parkeergelegenheid,
               t_House, JSString(t_Sale), TRUE, label(sample.published),
               c.insights)

\* a listing response is about to be normalized
NormInit ==
  /\ NoBatch
  /\ NoCalls
  /\ NoSearch
  /\ given \in {listingWith(c) : c \in ListingChoices}
  /\ got = null
  /\ gotAgain = null

\* the record parsed from the response at the clock reading `at`, and the
\* two records normalized from it
normalizeAt(rawData, at) ==
  LET normalized(data) == [data |-> data,
                           standard |-> transformToStandard(data),
                           property |-> normalizePropertyFromAPI(data)]
  IN normalized(parseListingResponse(rawData, at))

\* the response is parsed and normalized
Normalize ==
  /\ got = null
  /\ got' = Some(normalizeAt(given, now))
  /\ UNCHANGED <<calls, searchVars, batchVars, given, gotAgain>>

\* the same response is parsed and normalized once more
NormalizeAgain ==
  /\ got # null
  /\ gotAgain = null
  /\ gotAgain' = Some(normalizeAt(given, now))
  /\ UNCHANGED <<calls, searchVars, batchVars, given, got>>

\* time passes
TimePasses ==
  /\ now < Epoch + MaxWait * TimeUnit
  /\ now' = now + TimeUnit
  /\ UNCHANGED <<tinyIds, delayMs, env, lastRequestTime, requestCount, pc, i,
                 results, failed, wakeAt, inFlight, requests, served, startTime,
                 returned, pairVars, callVars, calls, searchVars>>

NormNext == Normalize \/ NormalizeAgain \/ TimePasses

NormSpec == NormInit /\ [][NormNext]_vars

(* ------------------- parseKenmerkValue on its own ---------------------- *)
\* every sequence of at most n elements of S
SeqsUpTo(S, n) == UNION {[1..k -> S] : k \in 0..n}

\* what a KenmerkenList holds: fields "f" with a value or without, a null
KenmerkLeaves ==
  {kenmerk("f", <<"a">>), kenmerk("f", <<"b">>), kenmerk("f", <<>>),
   kenmerkNull}

\* ... and fields "g" that have a KenmerkenList of their own
KenmerkItems ==
  KenmerkLeaves
    \cup {kenmerkGroup("g", <<"c">>, l) : l \in SeqsUpTo(KenmerkLeaves, MaxNested)}

\* the section looked into, if there is one
SectionsLookedInto ==
  {<<>>} \cup {<<kenmerkGroup("s", <<>>, l)>> : l \in SeqsUpTo(KenmerkItems, MaxItems)}

\* what stands before it in KenmerkSections: nothing, a null, another
\* section, a section of the same Id (with a field list, without one, with
\* a number for one)
SectionsBefore ==
  {<<>>, <<kenmerkNull>>,
   <<kenmerkGroup("t", <<>>, <<kenmerk("f", <<"b">>)>>)>>,
   <<kenmerkGroup("s", <<>>, <<kenmerk("f", <<"b">>)>>)>>,
   <<kenmerk("s", <<>>)>>, <<kenmerkScalar("s")>>}

\* what stands after it: nothing, or a section of the same Id
SectionsAfter ==
  {<<>>, <<kenmerkGroup("s", <<>>, <<kenmerk("f", <<"b">>)>>)>>}

KenmerkInit ==
  /\ NoBatch
  /\ NoCalls
  /\ NoSearch
  /\ given \in [sections : {before \o section \o after :
                              before \in SectionsBefore,
                              section \in SectionsLookedInto,
                              after \in SectionsAfter},
                 sectionId : {"s"},
                 fieldId : {"f", "g"}]
  /\ got = null
  /\ gotAgain = null

\* this.parseKenmerkValue(sections, sectionId, fieldId)
LookUp ==
  /\ got = null
  /\ got' = Some(parseKenmerkValueCall(given.sections, given.sectionId,
                                       given.fieldId))
  /\ UNCHANGED <<calls, searchVars, batchVars, given, gotAgain>>

KenmerkSpec == KenmerkInit /\ [][LookUp]_vars

(* ------------- overlapping calls of getListingByTinyId ----------------- *)
\* callers that do not wait for each other, on a freshly constructed client
GateInit ==
  /\ NoBatch
  /\ NoSearch
  /\ calls = [c \in 1..MaxCallers |-> [pc |-> "idle", wakeAt |-> 0, made |-> 0]]
  /\ given = null
  /\ got = null
  /\ gotAgain = null

\* what neither a caller of the client nor the scraper touches
gateRest ==
  <<tinyIds, delayMs, env, pc, i, results, failed, wakeAt, inFlight, served,
    startTime, returned, pairVars, callVars>>

\* the end of rateLimit and the request of caller c:
\* this.lastRequestTime = Date.now(); this.requestCount++; client.get(url)
sendFor(c) ==
  /\ lastRequestTime' = now
  /\ requestCount' = countRequest(requestCount)
  /\ requests' = Append(requests, [pos |-> c, at |-> now])
  /\ calls' = [calls EXCEPT ![c].pc = "fetching"]

\* caller c calls getListingByTinyId: rateLimit runs up to its await, a
\* timer is started or the request goes out at once
Enter(c) ==
  /\ calls[c].pc = "idle"
  /\ calls[c].made < MaxCallsEach
  /\ LET delay == rateLimitDelay(now, lastRequestTime, delayNeeded(delayMs)) IN
     \/ /\ delay = 0
        /\ sendFor(c)
        /\ UNCHANGED now
     \/ /\ delay > 0
        /\ calls' = [calls EXCEPT ![c].pc = "sleep", ![c].wakeAt = now + delay]
        /\ UNCHANGED <<now, lastRequestTime, requestCount, requests>>
  /\ UNCHANGED <<gateRest, searchVars>>

\* the timer of caller c fires: the rest of rateLimit, then the request
Wake(c) ==
  /\ calls[c].pc = "sleep"
  /\ timerFires(now, calls[c].wakeAt)
  /\ sendFor(c)
  /\ UNCHANGED <<now, gateRest, searchVars>>

\* the request of caller c is answered and getListingByTinyId returns
Return(c) ==
  /\ calls[c].pc = "fetching"
  /\ calls' = [calls EXCEPT ![c].pc = "idle", ![c].made = calls[c].made + 1]
  /\ UNCHANGED <<now, lastRequestTime, requestCount, requests, gateRest,
                 searchVars>>

\* time passes; a timer that is due fires before the clock goes on
GateTick ==
  /\ now < Epoch + MaxGateTicks * TimeUnit
  /\ \A c \in DOMAIN calls : calls[c].pc = "sleep" => now < calls[c].wakeAt
  /\ now' = now + TimeUnit
  /\ UNCHANGED <<calls, lastRequestTime, requestCount, requests, gateRest,
                 searchVars>>

GateNext ==
  \/ \E c \in DOMAIN calls : Enter(c) \/ Wake(c) \/ Return(c)
  \/ GateTick

GateSpec == GateInit /\ [][GateNext]_vars

(* ------------------------- the page scraper ---------------------------- *)
\* One FundaScraper.  browser and page are "null" (never set), "open" or
\* "closed"; searches are issued one after the other, init() and close()
\* may be called at any moment.  An element of allListings is written
\* [page, card]: the card-th property normalized from that page.

\* the keys of the table of cities
CITIES ==
  {"amsterdam", "rotterdam", "denhaag", "thehague", "utrecht", "eindhoven",
   "groningen", "haarlem", "alkmaar", "arnhem", "delft", "leiden", "tilburg",
   "breda"}

\* { city, maxPages, delayMs } as searchInternal reads them from its options
SearchOptions ==
  [city : {"amsterdam", "atlantis"},
   maxPages : 0..MaxPages,
   delayMs : {0, TimeUnit}]

\* the delay taken for every value of delayMs, also after the last page
delayWanted_afterLastPage(next, maxPages, ms) == ms # 0

\* if (pageNum <= maxPages && delayMs)
delayWanted(next, maxPages, ms) == next <= maxPages /\ ms # 0

\* a response that is not ok taken for a page to go on from
turn_goesOnAfterNotOk(seen) ==
  LET checked(pushed) ==
        IF seen.next = "throws"
        THEN [why |-> "nextThrew", pushed |-> pushed, stop |-> TRUE]
        ELSE IF seen.next = "no"
        THEN [why |-> "noNext", pushed |-> pushed, stop |-> TRUE]
        ELSE [why |-> "next", pushed |-> pushed, stop |-> FALSE]
      stopped(why) == [why |-> why, pushed |-> 0, stop |-> TRUE]
  IN  IF seen.goto = "throws" THEN stopped("gotoThrew")
      ELSE IF seen.goto = "notOk"
      THEN [why |-> "notOk", pushed |-> 0, stop |-> FALSE]
      ELSE IF seen.own = "throws" THEN stopped("extractThrew")
      ELSE IF seen.own = "none"
      THEN IF seen.injected = "throws" THEN stopped("extractThrew")
           ELSE IF seen.kept = 0 THEN stopped("noListings")
           ELSE checked(seen.kept)
      ELSE checked(seen.kept)

\* One turn of the while loop of searchInternal up to pageNum++: why it
\* ends, how many properties it pushed, whether the loop is left.  What it
\* meets is seen: page.goto throws, answers not ok or answers ok;
\* window.extractListingsFromPage() throws (the page may not define it),
\* gives nothing or gives cards; the extractor handed to evaluate throws or
\* gives cards; kept of the cards have a title or a price (normalizeProperty
\* gives null for the others); the look for a[rel="next"] throws, finds the
\* link or does not.
turn(seen) ==
  LET checked(pushed) ==
        IF seen.next = "throws"
        THEN [why |-> "nextThrew", pushed |-> pushed, stop |-> TRUE]
        ELSE IF seen.next = "no"
        THEN [why |-> "noNext", pushed |-> pushed, stop |-> TRUE]
        ELSE [why |-> "next", pushed |-> pushed, stop |-> FALSE]
      stopped(why) == [why |-> why, pushed |-> 0, stop |-> TRUE]
  IN  IF seen.goto = "throws" THEN stopped("gotoThrew")
      ELSE IF seen.goto = "notOk" THEN stopped("notOk")
      ELSE IF seen.own = "throws" THEN stopped("extractThrew")
      ELSE IF seen.own = "none"
      THEN IF seen.injected = "throws" THEN stopped("extractThrew")
           ELSE IF seen.kept = 0 THEN stopped("noListings")
           ELSE checked(seen.kept)
      ELSE checked(seen.kept)

SearchInit ==
  /\ NoBatch
  /\ NoCalls
  /\ NoSearch
  /\ given = null
  /\ got = null
  /\ gotAgain = null

\* close(): what is set is closed, the fields keep their objects
close ==
  /\ page' = IF page = "null" THEN "null" ELSE "closed"
  /\ browser' = IF browser = "null" THEN "null" ELSE "closed"
  /\ UNCHANGED <<now, options, pageNum, allListings, searchPc, sleepUntil,
                 loads, delayed, outcome, lastRequestTime, requestCount, requests, calls,
                 gateRest>>

\* init(): "ok", or launch() throws ("launchFails"), or a later step does
\* ("pageFails": this.browser is set by then); it throws unless "ok", and
\* searchInternal, like the unknown city, lets the error through
init(how) ==
  /\ browser' = IF how = "launchFails" THEN browser ELSE "open"
  /\ page' = IF how = "ok" THEN "open" ELSE page

\* searchBuy(opts) or searchRent(opts) up to the loop
searchInternal(opts) ==
  /\ searchPc = "idle"
  /\ now < Epoch + MaxSearchTicks * TimeUnit
  /\ options' = opts
  /\ pageNum' = 1
  /\ allListings' = <<>>
  /\ loads' = <<>>
  /\ delayed' = <<>>
  /\ sleepUntil' = 0
  /\ \E how \in {"ok", "launchFails", "pageFails"} :
       /\ IF browser = "null"
          THEN init(how)
          ELSE how = "ok" /\ UNCHANGED <<browser, page>>
       /\ IF how # "ok"
          THEN searchPc' = "idle" /\ outcome' = Raised
          ELSE IF opts.city \notin CITIES
          THEN searchPc' = "idle" /\ outcome' = Raised
          ELSE IF 1 <= opts.maxPages
          THEN searchPc' = "page" /\ outcome' = null
          ELSE searchPc' = "idle" /\ outcome' = Returned(<<>>)
  /\ UNCHANGED <<now, lastRequestTime, requestCount, requests, calls,
                 gateRest>>

\* one turn of the loop: the page loaded, its cards read and normalized,
\* the next link looked for, and the delay begun if one is due
LoadPage ==
  /\ searchPc = "page"
  /\ \E seen \in [goto : {"throws", "notOk", "ok"},
                  own : {"throws", "none", "cards"},
                  injected : {"throws", "cards"},
                  kept : 0..MaxCards,
                  next : {"throws", "yes", "no"}] :
       /\ page # "open" => seen.goto = "throws"
       /\ LET did == turn(seen)
              listings ==
                allListings \o
                  [j \in 1..did.pushed |-> [page |-> pageNum, card |-> j]]
              next == IF did.stop THEN pageNum ELSE pageNum + 1
          IN  /\ loads' = Append(loads,
                   [page |-> pageNum, at |-> now, on |-> page,
                    why |-> did.why, had |-> allListings])
              /\ allListings' = listings
              /\ pageNum' = next
              /\ IF did.stop
                 THEN /\ searchPc' = "idle"
                      /\ outcome' = Returned(listings)
                      /\ UNCHANGED <<sleepUntil, delayed>>
                 ELSE IF delayWanted(next, options.maxPages, options.delayMs)
                 THEN /\ \E jitter \in {0, TimeUnit} :
                           sleepUntil' = now + options.delayMs + jitter
                      /\ delayed' = Append(delayed, pageNum)
                      /\ searchPc' = "delay"
                      /\ outcome' = null
                 ELSE /\ IF next <= options.maxPages
                         THEN searchPc' = "page" /\ outcome' = null
                         ELSE searchPc' = "idle"
                              /\ outcome' = Returned(listings)
                      /\ UNCHANGED <<sleepUntil, delayed>>
  /\ UNCHANGED <<now, browser, page, options, lastRequestTime, requestCount, requests, calls,
                 gateRest>>

\* the timer of this.delay fires and the loop is tested again
DelayOver ==
  /\ searchPc = "delay"
  /\ timerFires(now, sleepUntil)
  /\ IF pageNum <= options.maxPages
     THEN searchPc' = "page" /\ outcome' = null
     ELSE searchPc' = "idle" /\ outcome' = Returned(allListings)
  /\ UNCHANGED <<now, browser, page, options, pageNum, allListings, sleepUntil,
                 loads, delayed, lastRequestTime, requestCount, requests, calls,
                 gateRest>>

SearchTick ==
  /\ IF searchPc = "delay"
     THEN now < sleepUntil
     ELSE now < Epoch + MaxSearchTicks * TimeUnit
  /\ now' = now + TimeUnit
  /\ UNCHANGED <<searchVars, lastRequestTime, requestCount, requests, calls,
                 gateRest>>

SearchNext ==
  \/ /\ \E how \in {"ok", "launchFails", "pageFails"} : init(how)
     /\ UNCHANGED <<now, options, pageNum, allListings, searchPc, sleepUntil,
                    loads, delayed, outcome, lastRequestTime, requestCount,
                    requests, calls, gateRest>>
  \/ close
  \/ \E opts \in SearchOptions : searchInternal(opts)
  \/ LoadPage
  \/ DelayOver
  \/ SearchTick

SearchSpec == SearchInit /\ [][SearchNext]_vars

(* ------------- classification, price and status of a record ------------ *)
\* what a listing response may say about the offer, the price and the type
RecordChoices ==
  [offeringType : {JSUndefined, JSString(t_Sale), JSString(sample.RENT),
                   JSString(sample.veiling)},
   sold : BOOLEAN,
   price : {null, Some(450000)},
   dutchPropertyType : {<<>>, t_Eengezinswoning, sample.Villa, t_kamer},
   objectType : {<<>>, t_House, t_Apartment}]

\* the listing response that carries what `c` says
recordWith(c) ==
  listingOf(1, c.price, t_Dam1, <<>>,
            << kenmerkGroup("bouw", <<>>,
                 << kenmerk("bouw-soortobject", c.dutchPropertyType) >>) >>,
            c.objectType, c.offeringType, c.sold, <<>>, <<>>)

RecordInit ==
  /\ NoBatch
  /\ NoCalls
  /\ NoSearch
  /\ given \in {recordWith(c) : c \in RecordChoices}
  /\ got = null
  /\ gotAgain = null

RecordSpec == RecordInit /\ [][NormNext]_vars

(* --------------------- the parsers on a listing's texts ---------------- *)
\* a price in the Dutch format: a euro sign or none, groups of digits with a
\* point between them, cents after a comma or none, a suffix
priceText(parts) ==
  LET RECURSIVE dotted(_)
      dotted(groups) ==
        IF Len(groups) <= 1 THEN join(groups)
        ELSE Head(groups) \o <<".">> \o dotted(Tail(groups))
  IN (IF parts.euro THEN <<euro, " ">> ELSE <<>>)
       \o dotted(parts.groups)
       \o (IF parts.cents = <<>> THEN <<>> ELSE <<",">> \o parts.cents)
       \o parts.suffix

\* an area in a text: something before it, the number, a gap or none, the
\* unit, something after it
areaText(parts) ==
  parts.before \o parts.n \o parts.gap \o parts.unit \o parts.after

ExampleInit ==
  /\ NoBatch
  /\ NoCalls
  /\ NoSearch
  /\ given \in
       [price : [euro : BOOLEAN,
                 groups : SeqsUpTo({<<"4","5","0">>, <<"0","0","0">>}, MaxGroups),
                 cents : {<<>>, sample.cents},
                 suffix : {<<>>, sample.kk, sample.perMaand}],
        area : [before : {<<>>, sample.wonen, sample.kamers, sample.berging},
                n : {<<"1","2","0">>, <<"8","5">>},
                gap : {<<>>, <<" ">>},
                unit : {<<"m","(sup2)">>, <<"M","2">>, <<"m">>},
                after : {<<>>}],
        dutchPropertyType : {t_Eengezinswoning, t_eengezinswoning, <<>>},
        objectType : {<<>>, t_Apartment},
        isSoldOrRented : BOOLEAN,
        transactionType : {"sale", "rent"}]
  /\ got = null
  /\ gotAgain = null

\* the texts of the listing are parsed, its type and its status derived
ParseTexts ==
  /\ got = null
  /\ got' = Some([price |-> parsePrice(priceText(given.price)),
                  sqm |-> extractSqm(areaText(given.area)),
                  property_type |-> normalizePropertyType(given.dutchPropertyType,
                                                          given.objectType),
                  status |-> standardStatus(given)])
  /\ UNCHANGED <<calls, searchVars, batchVars, given, gotAgain>>

ExampleSpec == ExampleInit /\ [][ParseTexts]_vars

(* ============================ properties =============================== *)
\* whether a fetch of `id` that ends the way `kind` says yields a property
\* (not null), tabulated
SucceedsTable ==
  [kind \in Kinds, id \in Ids |-> fetchListing(httpResponse(kind, id), 0) # null]

Succeeds(kind, id) == SucceedsTable[kind, id]

\* the identifiers of the first n positions whose fetch succeeded (want =
\* TRUE) or did not (want = FALSE), in input order
RECURSIVE IdsWith(_, _, _)
IdsWith(srv, n, want) ==
  IF n = 0 THEN <<>>
  ELSE LET rest == IdsWith(srv, n - 1, want) IN
       IF Succeeds(srv[n], tinyIds[n]) = want
       THEN Append(rest, tinyIds[n])
       ELSE rest

\* how often x occurs in the sequence seq
Occurrences(seq, x) == Cardinality({k \in 1..Len(seq) : seq[k] = x})

\* the positions up to n whose identifier is id and whose request failed
FailedFetches(srv, n, id) ==
  {p \in 1..n : srv[p] \in FailKinds /\ tinyIds[p] = id}

\* for each position served, whether its fetch ended in a property
Outcomes(srv) == [p \in 1..Len(srv) |-> Succeeds(srv[p], tinyIds[p])]

\* the number of positions up to j that `ok` marks
OkUpTo(ok, j) == Cardinality({p \in 1..j : ok[p]})

BatchDone == pc = "done"

\* C1: every processed identifier is in exactly one of the two lists: after
\* i identifiers |results| + |failed| = i, and N when the batch is done.
C1_OneListPerIdentifier ==
  /\ i = Len(served)
  /\ Len(results) + Len(failed) = i
  /\ BatchDone => Len(results) + Len(failed) = Len(tinyIds)

C1_Witness ==
  /\ BatchDone
  /\ Len(tinyIds) = MaxIds
  /\ results # <<>>
  /\ failed # <<>>

\* C2: a request that ends in a transport error, a status other than 200 or
\* an empty payload puts its identifier in `failed`, and the batch goes on:
\* when it is done every position has been requested, failed ones included.
C2_FailureIsRecordedAndBatchGoesOn ==
  /\ \A p \in 1..Len(served) :
       served[p] \in FailKinds =>
         Occurrences(failed, tinyIds[p]) >=
           Cardinality(FailedFetches(served, Len(served), tinyIds[p]))
  /\ pc \in {"loop", "sleep", "fetching", "done"}
  /\ BatchDone =>
       /\ Len(served) = Len(tinyIds)
       /\ \A p \in 1..Len(tinyIds) : \E k \in 1..Len(requests) : requests[k].pos = p

C2_Witness ==
  /\ BatchDone
  /\ served = <<"throw", "http404", "empty">>
  /\ failed = tinyIds

C4_OneFetchAtATime ==
  /\ inFlight \in {0, 1}
  /\ inFlight = 1 <=> pc = "fetching"
  /\ Len(requests) = i + inFlight
  /\ \A k \in 1..Len(requests) : requests[k].pos = k
  /\ Len(results) + Len(failed) = i

C4_Witness ==
  /\ inFlight = 1
  /\ i = MaxIds - 1
  /\ now > lastRequestTime
  /\ results # <<>>
  /\ failed # <<>>

\* C5: `results` and `failed` keep input order: the identifiers of the
\* records in `results` are those of the succeeding positions in input
\* order, and `failed` holds those of the other positions in input order.
C5_InputOrderKept ==
  /\ [k \in 1..Len(results) |-> results[k].id] = IdsWith(served, Len(served), TRUE)
  /\ failed = IdsWith(served, Len(served), FALSE)

C5_Witness ==
  /\ BatchDone
  /\ tinyIds = <<2, 1, 1>>
  /\ served = <<"house", "throw", "rent">>
  /\ Len(results) = 2
  /\ results[1].id = 2
  /\ results[2].id = 1

C7_FetchedIsNormalized ==
  /\ Len(results) = Cardinality({p \in 1..Len(served) : served[p] \in OkKinds})
  /\ Len(failed) = Cardinality({p \in 1..Len(served) : served[p] \in FailKinds})

\* every fetch call returns: a pending request is eventually processed
EveryFetchReturns == [](pc = "fetching" => <>(pc # "fetching"))

\* C8: the batch completes: whatever the outcomes, provided every fetch call
\* returns, fetchListingsBatch returns after the whole list has been
\* processed.
C8_BatchCompletes ==
  EveryFetchReturns => <>(BatchDone /\ i = Len(tinyIds) /\ returned # null)

C8_Witness ==
  /\ BatchDone
  /\ i = MaxIds
  /\ returned # null
  /\ served = <<"throw", "bare", "house">>

\* C9: the value the batch returns holds the list of the identifiers that
\* failed, next to the records.
C9_FailedListReturned ==
  BatchDone =>
    /\ returned # null
    /\ "failed" \in DOMAIN returned[1]
    /\ returned[1].failed = failed

TypeTable ==
  << [category |-> "apartment", terms |-> {t_appartement, t_apartment}],
     [category |-> "house", terms |-> {t_woning, t_eengezinswoning, t_huis}],
     [category |-> "villa", terms |-> {t_villa}],
     [category |-> "bungalow", terms |-> {t_bungalow}],
     [category |-> "studio", terms |-> {t_studio}],
     [category |-> "room", terms |-> {t_kamer}],
     [category |-> "land", terms |-> {t_tuin, t_grond}],
     [category |-> "new-construction", terms |-> {t_nieuwbouw}],
     [category |-> "farm", terms |-> {t_boerderij}] >>

RowMatches(r, text) == \E term \in TypeTable[r].terms : includes(text, term)

\* the category of the first row one of whose terms the text contains
FirstRow(text) ==
  IF \E r \in 1..Len(TypeTable) : RowMatches(r, text)
  THEN TypeTable[CHOOSE r \in 1..Len(TypeTable) :
                   /\ RowMatches(r, text)
                   /\ \A q \in 1..(r - 1) : ~RowMatches(q, text)].category
  ELSE "property"

BothAbsent == given.dutchType = <<>> /\ given.objectType = <<>>

\* C11, as stated: the classifier returns the category of the first matching
\* row of the table on the lower-cased concatenation of the two labels, and
\* 'property' when no row matches or both labels are absent.
C11_TableOnConcatenation ==
  got # null =>
    got[1] = IF BothAbsent THEN "property"
             ELSE FirstRow(toLowerCase(given.dutchType \o given.objectType))

\* C11, amended: the classifier returns the category of the first matching
\* row of the table on the lower-cased text "<label 1> <label 2>", the two
\* labels joined by one space, and 'property' when no row matches or both
\* labels are absent; "woning met tuin" gives house.
C11_TableOnLabelsJoinedBySpace ==
  got # null =>
    /\ got[1] = IF BothAbsent THEN "property"
                ELSE FirstRow(toLowerCase(given.dutchType \o <<" ">>
                                            \o given.objectType))
    /\ given.dutchType = sample.woningMetTuin /\ given.objectType = <<>> =>
         got[1] = "house"

C11_Witness ==
  /\ given.dutchType = sample.woningMetTuin
  /\ given.objectType = <<>>
  /\ got = Some("house")

\* the text a field of the raw record carries, null when the record has no
\* such field or the field has no text
RawValue(sectionId, fieldId) ==
  parseKenmerkValue(given.KenmerkSections, sectionId, fieldId)

\* the keys of the extension bag of the record normalized first
BagKeys == DOMAIN got[1].standard.country_specific

\* C12: every market-specific fact the raw record carries with a non-empty
\* value (type label, construction type, parking type, province, energy
\* label, plot area, price-per-area text, view count, save count,
\* publication date, identifiers) is in the normalized record, as a
\* universal field or as a key of the extension bag.
C12_NoFactDropped ==
  got # null =>
    LET standard == got[1].standard IN
    /\ RawValue("bouw", "bouw-soortobject") # null =>
         "dutch_property_type" \in BagKeys
    /\ RawValue("bouw", "bouw-soortbouw") # null =>
         "construction_type" \in BagKeys
    /\ RawValue("parkeergelegenheid", "parkeergelegenheid-soort") # null =>
         "parking_type" \in BagKeys
    /\ given.AddressDetails.Province # <<>> =>
         "province" \in BagKeys \/ standard.location.region # <<>>
    /\ RawValue("energie", "energie-energielabel") # null =>
         "energy_label" \in BagKeys \/ standard.energy_rating # <<>>
    /\ RawValue("afmetingen", "afmetingen-gebruiksoppervlakten-tuin") # null =>
         "plot_sqm" \in BagKeys
    /\ RawValue("overdracht", "overdracht-vraagprijsperm2") # null =>
         "price_per_sqm_original" \in BagKeys \/ standard.price_per_sqm # null
    /\ given.ObjectInsights.Views # <<>> => "views" \in BagKeys
    /\ given.ObjectInsights.Saves # <<>> => "saves" \in BagKeys
    /\ given.PublicationDate # <<>> => "publication_date" \in BagKeys
    /\ given.Identifiers.GlobalId # 0 =>
         {"id", "global_id", "globalId"}
           \cap (DOMAIN standard \cup BagKeys \cup DOMAIN got[1].property[1]) # {}

\* C13: the same raw record normalized twice, at any two moments, gives
\* equal normalized records.
C13_SameRecordTwice ==
  got # null /\ gotAgain # null =>
    /\ got[1].standard = gotAgain[1].standard
    /\ got[1].property = gotAgain[1].property

\* C14: every key of country_specific has a non-empty value, none is null,
\* undefined or not a number; a raw record without a price-per-area section
\* gives no price_per_sqm and no price_per_sqm_original key.
C14_BagKeysOnlyForFacts ==
  got # null =>
    LET standard == got[1].standard
        bag == standard.country_specific
    IN /\ \A key \in BagKeys :
            /\ bag[key] # <<>>
            /\ key \in {"plot_sqm", "views", "saves"} => truthyNum(bag[key][1])
       /\ findById(given.KenmerkSections, "overdracht") = null =>
            /\ standard.price_per_sqm = null
            /\ "price_per_sqm_original" \notin BagKeys

C14_Witness ==
  /\ got # null
  /\ findById(given.KenmerkSections, "overdracht") = null
  /\ {"dutch_property_type", "plot_sqm", "views"} \subseteq BagKeys

\* the positions of the sections that have the requested Id
SectionsWithId ==
  {k \in 1..Len(given.sections) :
     /\ given.sections[k].Shape # "null"
     /\ given.sections[k].Id = given.sectionId}

\* no element of the section list is null
NoNullSection == \A k \in 1..Len(given.sections) : given.sections[k].Shape # "null"

\* whether the list or a list nested in it has a field of that id
RECURSIVE hasField(_, _)
hasField(list, id) ==
  \E k \in 1..Len(list) :
    /\ list[k].Shape # "null"
    /\ \/ list[k].Id = id
       \/ list[k].Shape = "group" /\ hasField(list[k].KenmerkenList, id)

\* C17: the value is the one looked up in the first section that has the
\* requested Id, alone; sections of that Id after it are never consulted,
\* also when the first has no such field.
C17_FirstSectionWins ==
  got # null /\ NoNullSection /\ SectionsWithId # {} =>
    LET first == CHOOSE k \in SectionsWithId : \A j \in SectionsWithId : k <= j
    IN /\ got[1].value = parseKenmerkValue(<<given.sections[first]>>,
                                           given.sectionId, given.fieldId)
       /\ (given.sections[first].Shape = "group"
            /\ ~hasField(given.sections[first].KenmerkenList, given.fieldId)) =>
              got[1].value = null

C17_Witness ==
  /\ got # null
  /\ NoNullSection
  /\ SectionsWithId = {1, 2}
  /\ given.sections[1].Shape = "group"
  /\ ~hasField(given.sections[1].KenmerkenList, given.fieldId)
  /\ hasField(given.sections[2].KenmerkenList, given.fieldId)
  /\ got[1].value = null

\* a null somewhere in the list or in a list nested in it
RECURSIVE hasNull(_)
hasNull(list) ==
  \E k \in 1..Len(list) :
    \/ list[k].Shape = "null"
    \/ list[k].Shape = "group" /\ hasNull(list[k].KenmerkenList)

\* the section the lookup is in is the only one, and it is well-formed
OneSection ==
  /\ Len(given.sections) = 1
  /\ SectionsWithId = {1}
  /\ given.sections[1].Shape = "group"
  /\ ~hasNull(given.sections[1].KenmerkenList)

\* the Value of a field as the lookup returns it: null for an empty text
valueOf(field) == IF field.Value = <<>> THEN null ELSE Some(field.Value)

\* the first field of that id met when the list is walked item by item,
\* each item followed by the items nested in it
RECURSIVE firstMet(_, _)
firstMet(list, id) ==
  IF list = <<>> THEN null
  ELSE IF Head(list).Id = id THEN Some(Head(list))
  ELSE LET nested == IF Head(list).Shape = "group"
                     THEN firstMet(Head(list).KenmerkenList, id)
                     ELSE null
       IN IF nested # null THEN nested ELSE firstMet(Tail(list), id)

\* the fields of that id that stand in the list itself
ownFields(list, id) == SelectSeq(list, LAMBDA item : item.Id = id)

\* C18 as stated: the own fields of the section come before the fields
\* nested in it, so a field that stands in the section itself wins over
\* one of the same id inside a nested child.
C18_OwnFieldsFirst ==
  got # null /\ OneSection =>
    LET own == ownFields(given.sections[1].KenmerkenList, given.fieldId)
    IN own # <<>> => got[1].value = valueOf(own[1])

\* C18: the section is walked depth-first, each item followed by the items
\* nested in it and then by its later siblings, and the value is that of
\* the first field of the requested id met; an own field wins over a nested
\* one only when it stands before the child that holds the nested one.
C18_FirstMetInPreOrder ==
  got # null /\ OneSection =>
    LET list == given.sections[1].KenmerkenList
        met == firstMet(list, given.fieldId)
    IN /\ got[1].value = IF met = null THEN null ELSE valueOf(met[1])
       /\ \A k \in 1..Len(list) :
            (/\ list[k].Id = given.fieldId
             /\ \A j \in 1..(k - 1) :
                  ~hasField(<<list[j]>>, given.fieldId)) =>
              got[1].value = valueOf(list[k])

C18_Witness ==
  /\ got # null
  /\ OneSection
  /\ given.fieldId = "f"
  /\ given.sections[1].KenmerkenList =
       << kenmerkGroup("g", <<"c">>, <<kenmerk("f", <<"b">>)>>),
          kenmerk("f", <<"a">>) >>
  /\ got[1].value = Some(<<"b">>)

\* the lookup has nothing to return
NothingToReturn ==
  \/ given.sections = <<>>
  \/ SectionsWithId = {}
  \/ LET first == CHOOSE k \in SectionsWithId : \A j \in SectionsWithId : k <= j
         section == given.sections[first]
     IN \/ section.Shape = "leaf"
        \/ section.Shape = "group"
             /\ ~hasNull(section.KenmerkenList)
             /\ LET met == firstMet(section.KenmerkenList, given.fieldId)
                IN met = null \/ met[1].Value = <<>>

\* C19: the lookup never ends with an exception; it returns null for an
\* empty section list, a missing section, a section without a field list,
\* a missing field and a field without a value; it changes neither the
\* section tree nor the state of the client.
C19_LookUpNeverFails ==
  /\ [](got # null =>
          /\ ~got[1].threw
          /\ (NoNullSection /\ NothingToReturn) => got[1].value = null
          /\ parseKenmerkValueTry(given.sections, given.sectionId,
                                  given.fieldId).threw => got[1].value = null)
  /\ [][got' # got =>
          /\ given' = given
          /\ UNCHANGED <<lastRequestTime, requestCount>>]_vars

C19_Witness ==
  /\ got = Some(Returned(null))
  /\ given.sections # <<>>
  /\ parseKenmerkValueTry(given.sections, given.sectionId, given.fieldId).threw

NotNaN(o) == o = null \/ ~isNaN(o[1])

\* C16: a numeric attribute whose text does not parse (year built, living
\* area, plot area, rooms, bedrooms, bathrooms, price per area) is absent
\* in the normalized record, never not-a-number, and the record is there.
C16_UnparsableNumberIsAbsent ==
  got # null =>
    LET standard == got[1].standard
        property == got[1].property
    IN /\ property # null
       /\ \A f \in {"year_built", "sqm", "rooms", "bedrooms", "bathrooms"} :
            NotNaN(standard.details[f])
       /\ NotNaN(standard.price_per_sqm)
       /\ "plot_sqm" \in BagKeys => NotNaN(standard.country_specific["plot_sqm"])
       /\ \A f \in {"yearBuilt", "sqm", "rooms", "bedrooms", "bathrooms",
                    "gardenSqm"} :
            NotNaN(property[1].details[f])

\* the number a Dutch amount denotes: currency sign and whitespace
\* stripped, the points of the thousands removed, the comma read as the
\* decimal point
DutchAmount(text) ==
  parseFloat(replaceFirst(removeAll(text, {euro, "."} \cup Whitespace), ",", "."))

\* C20: price_per_sqm of the normalized record is the number the raw text
\* of the price per m2 denotes, with and without a decimal part:
\* "(euro) 3.750,50" gives 3750.5, "(euro) 3.750" gives 3750.
C20_PricePerSqmIsTheAmount ==
  got # null =>
    LET raw == RawValue("overdracht", "overdracht-vraagprijsperm2")
        pricePerSqm == got[1].standard.price_per_sqm
    IN /\ raw # null /\ ~isNaN(DutchAmount(raw[1])) =>
            pricePerSqm = Some(DutchAmount(raw[1]))
       /\ raw = Some(sample.perSqmCents) => pricePerSqm = Some(Num(3750, <<"5">>))
       /\ raw = Some(sample.perSqm) => pricePerSqm = Some(Num(3750, <<>>))

\* the status the derivation rule gives: sold or rented under the flag, by
\* the transaction kind, and active in every other case
statusByRule(flag, kind) ==
  IF flag /\ kind = "sale" THEN "sold"
  ELSE IF flag /\ kind = "rent" THEN "rented"
  ELSE "active"

\* the transaction kind the source offering type names
sourceKind ==
  LET offering == IF given.OfferingType.t = "string"
                  THEN toLowerCase(given.OfferingType.s) ELSE <<>>
  IN IF offering = t_sale THEN "sale"
     ELSE IF offering = t_rent THEN "rent"
     ELSE "unknown"

\* C21: under the sold-or-rented flag the status is sold for a sale and
\* rented for a rent; in every other case (flag false, or transaction kind
\* unknown) it is active, in the record of either normalizer.
C21_StatusDerivation ==
  got # null =>
    /\ got[1].standard.status = statusByRule(given.IsSoldOrRented, sourceKind)
    /\ got[1].property # null =>
         got[1].property[1].status = statusByRule(given.IsSoldOrRented, sourceKind)

\* C22: every record in the success list of a batch has a status that is
\* one of active, sold, rented.
C22_StatusInEnum ==
  \A k \in 1..Len(results) : results[k].status \in {"active", "sold", "rented"}

\* C23: the price of the normalized record is the numeric price of the
\* source when it has one, and null, never a number, when it has none.
C23_PriceOrNull ==
  got # null =>
    LET numeric == given.Price.NumericSellingPrice
        price == got[1].standard.price
    IN /\ numeric # null => price = numeric[1]
       /\ numeric = null => price \notin Int
       /\ got[1].property # null => got[1].property[1].price = numeric

\* C24: the transaction kind of the normalized record is sale, rent or
\* unknown, and unknown exactly when the offering type of the source is
\* neither sale nor rent in any case of letters.
C24_TransactionKind ==
  got # null =>
    /\ got[1].standard.transaction_type = sourceKind
    /\ got[1].property # null => got[1].property[1].transactionType = sourceKind

\* C26: the property type normalizePropertyFromAPI assigns equals the one
\* normalizePropertyType assigns for the same two labels.
C26_ClassifiersAgree ==
  got # null /\ got[1].property # null =>
    got[1].property[1].propertyType = got[1].standard.property_type

\* C25: any two requests issued through one client, also by callers that
\* overlap in time, are at least the configured delay apart.
C25_RequestsSpacedAcrossCallers ==
  \A j, k \in 1..Len(requests) :
    j < k => requests[k].at - requests[j].at >= delayNeeded(delayMs)

\* C27: a search loads the pages 1, 2, 3, ... in this order, each once and at
\* most maxPages of them, and a page is followed by another one only if it
\* loaded, threw nothing, yielded listings and had a next-page link.
C27_StopsAtFirstPageWithoutListings ==
  \A k \in 1..Len(loads) :
    /\ loads[k].page = k
    /\ k <= options.maxPages
    /\ k < Len(loads) =>
         /\ loads[k].why = "next"
         /\ \E j \in 1..Len(allListings) : allListings[j].page = k

\* the search is over and the load of page k was the last one begun
lastLoad(k) == searchPc = "idle" /\ k = Len(loads)

\* C28: with a non-zero delayMs every page load begins at least delayMs
\* after the one before it, and every delay taken is followed by a page
\* load: none is taken after the last page load of the search.
C28_DelayBetweenPageLoads ==
  /\ \A k \in 1..Len(loads) :
       (k > 1 /\ options.delayMs # 0) =>
         loads[k].at - loads[k - 1].at >= options.delayMs
  /\ \A d \in 1..Len(delayed) :
       \/ searchPc # "idle" /\ d = Len(delayed)
       \/ \E k \in 1..Len(loads) : loads[k].page = delayed[d] + 1

\* a search of three pages over, with a delay after the first and after the
\* second page and none after the third
C28_Witness ==
  /\ lastLoad(3)
  /\ options.delayMs # 0
  /\ delayed = <<1, 2>>
  /\ loads[3].why = "next"

\* C29: when page k fails to load or its cards cannot be read, the search
\* ends there and returns exactly what it had gathered from the pages
\* before k; an error is let through only before any page is loaded, and by
\* a search that found a browser only for an unknown city.
C29_FailedPageEndsSearchQuietly ==
  /\ [](/\ \A k \in 1..Len(loads) :
             loads[k].why \in {"gotoThrew", "notOk", "extractThrew"} =>
               /\ lastLoad(k)
               /\ outcome = Returned(loads[k].had)
               /\ \A j \in 1..Len(loads[k].had) : loads[k].had[j].page < k
        /\ outcome = Raised => loads = <<>>)
  /\ [][\A opts \in SearchOptions :
          (browser # "null" /\ searchInternal(opts) /\ outcome' = Raised) =>
            opts.city \notin CITIES]_vars

\* the second page failed and the search returned the listings of the first
C29_Witness ==
  /\ lastLoad(2)
  /\ loads[2].why \in {"gotoThrew", "notOk", "extractThrew"}
  /\ loads[2].had # <<>>
  /\ outcome = Returned(loads[2].had)

\* C30: every page load is made on a page of a browser that was initialized
\* and has not been closed since.
C30_LoadsOnOpenBrowser ==
  \A k \in 1..Len(loads) : loads[k].on = "open"

====
